---- MODULE Spec2Model ----
(***************************************************************************)
(* Model of the sidevm off-chain probing service: the Probe state record,  *)
(* its mutators and queries (probe.rs), the peer client (probe.rs), the    *)
(* directory stub (utils.rs), the HTTP and query handlers (router.rs,      *)
(* query.rs) and the optimizer task (optimize.rs), run as cooperative      *)
(* tasks over one tokio mutex.                                             *)
(*                                                                         *)
(* Numbers: f64 values are modelled on the integer grid.  Coordinates are  *)
(* drawn from CoordVals, latencies from 0..MaxLatency.                      *)
(***************************************************************************)
EXTENDS Integers, Sequences, FiniteSets, TLC

(***************************************************************************)
(* Identifiers.  The probe's own id is hex([0,0,0,worker_id]); PeerB and   *)
(* PeerC are listed by the directory stub, UnknownId is not.  PeerD is     *)
(* listed as well; the probe hears of it only through the maps of others.  *)
(***************************************************************************)
SelfId == "00000005"
PeerB == "00000001"
PeerC == "00000002"
PeerD == "00000003"
UnknownId == "ffffffff"
Ids == {SelfId, PeerB, PeerC, UnknownId}

(***************************************************************************)
(* Bounds of the model.                                                    *)
(***************************************************************************)
MaxEpoch == 2
MaxVecLen == 2
MaxLatency == 0
MaxRemoteKeys == 1
MaxEndpoints == 2
MaxPeerLatency == 1

(***************************************************************************)
(* ProbeParameters, as read from the cache by Probe::new.                  *)
(***************************************************************************)
dim_size == 2
sample_size == 1
detection_size == 1
batch_size == 1
max_iters == 2
max_offline_cnt == 2
patience_param == 0
BetaNum == 1
BetaDen == 2
lr_param == 4
FactorNum == 1
FactorDen == 2
min_lr == 2
F64Max == 1000000
U128Max == 1000000
U64Max == 7
U8Max == 255
EchoDelay == 100

CoordVals == {0}

(***************************************************************************)
(* Generic helpers: HashMap as a function, Vec as a sequence.              *)
(***************************************************************************)
Min(a, b) == IF a < b THEN a ELSE b

Range(s) == {s[i] : i \in 1..Len(s)}

EmptyMap == [x \in {} |-> 0]

Put(m, k, v) == [x \in DOMAIN m \cup {k} |-> IF x = k THEN v ELSE m[x]]

Retain(m, keep) == [x \in keep \cap DOMAIN m |-> m[x]]

RECURSIVE SumOver(_, _)
SumOver(S, f) ==
  IF S = {} THEN 0
  ELSE LET x == CHOOSE y \in S : TRUE IN f[x] + SumOver(S \ {x}, f)

Perms(S) == {s \in [1..Cardinality(S) -> S] : Range(s) = S}

Vectors(len) == [1..len -> CoordVals]

(***************************************************************************)
(* utils.rs                                                                *)
(***************************************************************************)
DirectoryKnows(id) == id \in {SelfId, PeerB, PeerC, PeerD}

get_address_by_id(id) ==
  CASE id = PeerB -> <<"127.0.0.1:2001">>
    [] id = PeerC -> <<"127.0.0.1:2002">>
    [] id = PeerD -> <<"127.0.0.1:2003">>
    [] id = SelfId -> <<"127.0.0.1:2005">>

ISqrt(n) == CHOOSE r \in 0..n : r * r <= n /\ (r + 1) * (r + 1) > n

Abs(x) == IF x < 0 THEN -x ELSE x

\* distance over the whole first vector, the second one padded with zeros
euclidean_distance_LeftLength(a, b) ==
  LET sq == [i \in 1..Len(a) |->
               IF i <= Len(b) THEN (a[i] - b[i]) * (a[i] - b[i]) ELSE a[i] * a[i]]
  IN ISqrt(SumOver(1..Len(a), sq))

\* square root, on the integer grid, of the sum of squared differences
\* over the zipped prefix of the two vectors
euclidean_distance(a, b) ==
  LET n == Min(Len(a), Len(b))
      sq == [i \in 1..n |-> (a[i] - b[i]) * (a[i] - b[i])]
  IN ISqrt(SumOver(1..n, sq))

(***************************************************************************)
(* probe.rs: Peer                                                          *)
(***************************************************************************)
\* Peer::new, given the directory's answer for id
Peer_new(id, endpoints) ==
  [encoded_public_key |-> id,
   best_endpoint |-> endpoints[1],
   endpoints |-> endpoints,
   offline_cnt |-> 0]

update_endpoints(peer, answer) == [peer EXCEPT !.endpoints = answer]

is_online(peer) == peer.offline_cnt = 0

\* One endpoint's request: whether it answered and how long it took.
EndpointOutcomes == [ok : BOOLEAN, dur : 0..MaxLatency]

\* the scan given up at the first endpoint that fails
RECURSIVE echo_scan_StopAtFailure(_, _, _, _, _, _)
echo_scan_StopAtFailure(peer, outs, i, elapsed, best_latency, all_failed) ==
  IF i > Len(peer.endpoints)
  THEN [peer |-> peer, best_latency |-> best_latency, all_failed |-> all_failed]
  ELSE LET end == elapsed + outs[i].dur IN
       IF ~outs[i].ok
       THEN [peer |-> peer, best_latency |-> best_latency, all_failed |-> all_failed]
       ELSE IF end < best_latency
            THEN echo_scan_StopAtFailure([peer EXCEPT !.best_endpoint = peer.endpoints[i]],
                                         outs, i + 1, end, end, FALSE)
            ELSE echo_scan_StopAtFailure(peer, outs, i + 1, end, best_latency, FALSE)

\* The scan of echo from endpoint i on: start_ms is taken once before the
\* loop, so an endpoint's elapsed time is the time since the start of echo.
RECURSIVE echo_scan(_, _, _, _, _, _)
echo_scan(peer, outs, i, elapsed, best_latency, all_failed) ==
  IF i > Len(peer.endpoints)
  THEN [peer |-> peer, best_latency |-> best_latency, all_failed |-> all_failed]
  ELSE LET end == elapsed + outs[i].dur IN
       IF ~outs[i].ok
       THEN echo_scan(peer, outs, i + 1, end, best_latency, all_failed)
       ELSE IF end < best_latency
            THEN echo_scan([peer EXCEPT !.best_endpoint = peer.endpoints[i]],
                           outs, i + 1, end, end, FALSE)
            ELSE echo_scan(peer, outs, i + 1, end, best_latency, FALSE)

echo(peer, outs) ==
  LET r == echo_scan(peer, outs, 1, 0, U128Max, TRUE)
  IN [peer |-> r.peer,
      ok |-> ~r.all_failed,
      ttl |-> IF r.all_failed THEN 0 ELSE r.best_latency + EchoDelay]

(***************************************************************************)
(* probe.rs: Probe                                                         *)
(***************************************************************************)
\* Probe::new without the two inserts of lines 149-153
Probe_new_NoSelfEntries ==
  [encoded_public_key |-> SelfId,
   parameters |-> [max_offline_cnt |-> max_offline_cnt],
   telemetry |-> EmptyMap,
   resolved |-> EmptyMap,
   peers |-> EmptyMap,
   pending_peer_ids |-> <<>>,
   status |-> [is_optimizing |-> FALSE, precision_ms |-> 0, epoch |-> 0]]

Probe_new ==
  [encoded_public_key |-> SelfId,
   parameters |-> [max_offline_cnt |-> max_offline_cnt],
   telemetry |-> Put(EmptyMap, SelfId, 0),
   resolved |-> Put(EmptyMap, SelfId, CHOOSE v \in Vectors(dim_size) : TRUE),
   peers |-> EmptyMap,
   pending_peer_ids |-> <<>>,
   status |-> [is_optimizing |-> FALSE, precision_ms |-> 0, epoch |-> 0]]

\* add_peer without the comparison with the probe's own id
add_peer_ok_NoSelfCheck(p, peer) ==
  peer.encoded_public_key \notin DOMAIN p.peers

add_peer_ok(p, peer) ==
  /\ peer.encoded_public_key # p.encoded_public_key
  /\ peer.encoded_public_key \notin DOMAIN p.peers

\* add_peer that inserts whatever the map holds
add_peer_Overwrite(p, peer) ==
  [p EXCEPT !.peers = Put(p.peers, peer.encoded_public_key, peer)]

add_peer(p, peer) ==
  IF add_peer_ok(p, peer)
  THEN [p EXCEPT !.peers = Put(p.peers, peer.encoded_public_key, peer)]
  ELSE p

\* add_pending_peer without the look-up in the pending list
add_pending_peer_NoDupCheck(p, id) ==
  IF /\ id # p.encoded_public_key
     /\ id \notin DOMAIN p.peers
  THEN [p EXCEPT !.pending_peer_ids = Append(p.pending_peer_ids, id)]
  ELSE p

add_pending_peer(p, id) ==
  IF /\ id # p.encoded_public_key
     /\ id \notin DOMAIN p.peers
     /\ id \notin Range(p.pending_peer_ids)
  THEN [p EXCEPT !.pending_peer_ids = Append(p.pending_peer_ids, id)]
  ELSE p

\* get_best_endpoint_to without the online check
get_best_endpoint_to_NoOnlineCheck(p, to) ==
  IF to \in DOMAIN p.peers
  THEN [ok |-> TRUE, err |-> "", text |-> p.peers[to].best_endpoint]
  ELSE [ok |-> FALSE, err |-> "NotAPeer", text |-> ""]

get_best_endpoint_to(p, to) ==
  IF to \in DOMAIN p.peers
  THEN IF ~is_online(p.peers[to])
       THEN [ok |-> FALSE, err |-> "Offline", text |-> ""]
       ELSE [ok |-> TRUE, err |-> "", text |-> p.peers[to].best_endpoint]
  ELSE [ok |-> FALSE, err |-> "NotAPeer", text |-> ""]

\* estimate without the online check of the second peer
estimate_NoOnlineCheckTo(p, from, to) ==
  IF from \notin DOMAIN p.peers THEN [ok |-> FALSE, err |-> "NotAPeer", num |-> 0]
  ELSE IF ~is_online(p.peers[from]) THEN [ok |-> FALSE, err |-> "Offline", num |-> 0]
  ELSE IF to \notin DOMAIN p.peers THEN [ok |-> FALSE, err |-> "NotAPeer", num |-> 0]
  ELSE IF from \notin DOMAIN p.resolved THEN [ok |-> FALSE, err |-> "NotResolved", num |-> 0]
  ELSE IF to \notin DOMAIN p.resolved THEN [ok |-> FALSE, err |-> "NotResolved", num |-> 0]
  ELSE [ok |-> TRUE, err |-> "",
        num |-> euclidean_distance(p.resolved[from], p.resolved[to])]

estimate(p, from, to) ==
  IF from \notin DOMAIN p.peers THEN [ok |-> FALSE, err |-> "NotAPeer", num |-> 0]
  ELSE IF ~is_online(p.peers[from]) THEN [ok |-> FALSE, err |-> "Offline", num |-> 0]
  ELSE IF to \notin DOMAIN p.peers THEN [ok |-> FALSE, err |-> "NotAPeer", num |-> 0]
  ELSE IF ~is_online(p.peers[to]) THEN [ok |-> FALSE, err |-> "Offline", num |-> 0]
  ELSE IF from \notin DOMAIN p.resolved THEN [ok |-> FALSE, err |-> "NotResolved", num |-> 0]
  ELSE IF to \notin DOMAIN p.resolved THEN [ok |-> FALSE, err |-> "NotResolved", num |-> 0]
  ELSE [ok |-> TRUE, err |-> "",
        num |-> euclidean_distance(p.resolved[from], p.resolved[to])]

start_optimize(p) == [p EXCEPT !.status.is_optimizing = TRUE]

stop_optimize(p) == [p EXCEPT !.status.is_optimizing = FALSE]

(***************************************************************************)
(* optimize.rs: pure parts of one round, on the optimizer's local copies.  *)
(***************************************************************************)
VecAdd(a, b) == [i \in 1..Min(Len(a), Len(b)) |-> a[i] + b[i]]

VecSub(a, b) == [i \in 1..Min(Len(a), Len(b)) |-> a[i] - b[i]]

ZeroVec(n) == [i \in 1..n |-> 0]

\* any number of elements up to n
Batches_UpTo(S, n) == {T \in SUBSET S : Cardinality(T) <= n}

\* choose_multiple(rng, n): n elements without replacement, all when fewer
Batches(S, n) == {T \in SUBSET S : Cardinality(T) = Min(n, Cardinality(S))}

\* the ids whose coordinate compute_loss looks up with expect()
loss_entries(retained, tel) ==
  {id \in DOMAIN tel :
     /\ id # SelfId
     /\ ~(id \in DOMAIN retained /\ ~is_online(retained[id]))}

compute_loss_panics(retained, tel, res) ==
  \/ SelfId \notin DOMAIN res
  \/ \E id \in loss_entries(retained, tel) : id \notin DOMAIN res

\* the loss over the retained peers only
compute_loss_RetainedOnly(retained, tel, res) ==
  LET E == loss_entries(retained, tel) \cap DOMAIN retained
      term == [id \in E |->
                 Abs(tel[id] - euclidean_distance(res[SelfId], res[id]))
                   \div (Cardinality(DOMAIN tel) - 1)]
  IN SumOver(E, term)

compute_loss(retained, tel, res) ==
  LET E == loss_entries(retained, tel)
      term == [id \in E |->
                 Abs(tel[id] - euclidean_distance(res[SelfId], res[id]))
                   \div (Cardinality(DOMAIN tel) - 1)]
  IN SumOver(E, term)

\* collect_telemetry for one peer of a batch: answer is what the directory
\* returns for it, out the outcome of the request to each endpoint
probe_peer(peer, answer, out) == echo(update_endpoints(peer, answer), out)

\* the new measurement in place of the moving average
ema_NoBlend(prior, ttl) == ttl

ema(prior, ttl) == (prior * BetaNum + ttl * (BetaDen - BetaNum)) \div BetaDen

\* line 70: offline_cnt += 1 on a u8 that holds u8::MAX
offline_cnt_overflows(ps, batch, answers, outs) ==
  \E id \in batch : /\ ~probe_peer(ps[id], answers[id], outs[id]).ok
                     /\ ps[id].offline_cnt = U8Max

\* the counter wraps where the build does not check the addition
collect_peers(ps, batch, answers, outs) ==
  [id \in DOMAIN ps |->
     IF id \notin batch THEN ps[id]
     ELSE LET r == probe_peer(ps[id], answers[id], outs[id]) IN
          IF r.ok THEN [r.peer EXCEPT !.offline_cnt = 0]
          ELSE [r.peer EXCEPT !.offline_cnt = (r.peer.offline_cnt + 1) % (U8Max + 1)]]

\* a telemetry entry written for every probed peer, also when its echo failed
collect_telemetry_InsertOnFailure(tel, ps, batch, answers, outs) ==
  [id \in DOMAIN tel \cup batch |->
     IF id \notin batch THEN tel[id]
     ELSE probe_peer(ps[id], answers[id], outs[id]).ttl]

\* the entry of a peer whose echo failed is dropped
collect_telemetry_DropOnFailure(tel, ps, batch, answers, outs) ==
  LET hit == {id \in batch : probe_peer(ps[id], answers[id], outs[id]).ok}
  IN [id \in (DOMAIN tel \ (batch \ hit)) \cup hit |->
        IF id \notin hit THEN tel[id]
        ELSE LET ttl == probe_peer(ps[id], answers[id], outs[id]).ttl IN
             IF id \in DOMAIN tel THEN ema(tel[id], ttl) ELSE ttl]

collect_telemetry(tel, ps, batch, answers, outs) ==
  LET hit == {id \in batch : probe_peer(ps[id], answers[id], outs[id]).ok}
  IN [id \in DOMAIN tel \cup hit |->
        IF id \notin hit THEN tel[id]
        ELSE LET ttl == probe_peer(ps[id], answers[id], outs[id]).ttl IN
             IF id \in DOMAIN tel THEN ema(tel[id], ttl) ELSE ttl]

\* step 2 of one embedding iteration: the force of the peers K on x
RECURSIVE force_of(_, _, _, _, _)
force_of(K, x, tel, res, force) ==
  IF K = {} THEN force
  ELSE LET id == CHOOSE y \in K : TRUE
           prediction == euclidean_distance(x, res[id])
           error == tel[id] - prediction
           direction == VecSub(x, res[id])
           norm == SumOver(1..Len(direction),
                           [i \in 1..Len(direction) |-> direction[i] * direction[i]])
           unit == [i \in 1..Len(direction) |->
                      IF norm = 0 THEN 0 ELSE direction[i] \div ISqrt(norm)]
           f2 == [i \in 1..Min(Len(force), Len(direction)) |->
                    force[i] + unit[i] * error]
       IN force_of(K \ {id}, x, tel, res, f2)

momentum_step(momentum, force, peers_len) ==
  [i \in 1..Min(Len(momentum), Len(force)) |->
     (momentum[i] * BetaNum) \div BetaDen
       + (force[i] * (BetaDen - BetaNum)) \div (BetaDen * peers_len)]

position_step(x, momentum, lr) ==
  [i \in 1..Min(Len(x), Len(momentum)) |-> x[i] + momentum[i] * lr]

\* the merge without the push of the key onto the pending list
RECURSIVE merge_remote_NoDiscovery(_, _, _, _, _, _)
merge_remote_NoDiscovery(remote, ord, i, pend, res, counter) ==
  IF i > Len(ord) THEN [pend |-> pend, res |-> res, counter |-> counter]
  ELSE LET k == ord[i]
           v == remote[k]
       IN IF k \in DOMAIN res
          THEN merge_remote_NoDiscovery(remote, ord, i + 1, pend,
                            Put(res, k, VecAdd(res[k], v)),
                            Put(counter, k,
                                IF k \in DOMAIN counter THEN counter[k] + 1 ELSE 2))
          ELSE merge_remote_NoDiscovery(remote, ord, i + 1, pend,
                            Put(res, k, v), Put(counter, k, 1))

\* aggregation of one fetched map, its entries taken in the order ord
RECURSIVE merge_remote(_, _, _, _, _, _)
merge_remote(remote, ord, i, pend, res, counter) ==
  IF i > Len(ord) THEN [pend |-> pend, res |-> res, counter |-> counter]
  ELSE LET k == ord[i]
           v == remote[k]
           pend2 == IF k \in Range(pend) THEN pend ELSE Append(pend, k)
       IN IF k \in DOMAIN res
          THEN merge_remote(remote, ord, i + 1, pend2,
                            Put(res, k, VecAdd(res[k], v)),
                            Put(counter, k,
                                IF k \in DOMAIN counter THEN counter[k] + 1 ELSE 2))
          ELSE merge_remote(remote, ord, i + 1, pend2,
                            Put(res, k, v), Put(counter, k, 1))

\* every aggregated vector halved, whatever its count
divide_aggregated_Halved(res, counter) ==
  [k \in DOMAIN res |->
     IF k \in DOMAIN counter
     THEN [i \in 1..Len(res[k]) |-> res[k][i] \div 2]
     ELSE res[k]]

divide_aggregated(res, counter) ==
  [k \in DOMAIN res |->
     IF k \in DOMAIN counter
     THEN [i \in 1..Len(res[k]) |-> res[k][i] \div counter[k]]
     ELSE res[k]]

RECURSIVE center_of(_, _, _)
center_of(res, K, acc) ==
  IF K = {} THEN acc
  ELSE LET k == CHOOSE y \in K : TRUE
           x == res[k]
           n == Cardinality(DOMAIN res)
       IN center_of(res, K \ {k},
                    [i \in 1..Min(Len(acc), Len(x)) |-> acc[i] + x[i] \div n])

\* the translation applied whether or not anything was aggregated
rebase_Unguarded(res, counter) ==
  LET center == center_of(res, DOMAIN res, ZeroVec(dim_size))
  IN [k \in DOMAIN res |-> VecSub(res[k], center)]

rebase(res, counter) ==
  IF Cardinality(DOMAIN counter) > 0
  THEN LET center == center_of(res, DOMAIN res, ZeroVec(dim_size))
       IN [k \in DOMAIN res |-> VecSub(res[k], center)]
  ELSE res

\* what peer.resolved() can return: a map with any keys and vectors
RemoteMaps ==
  UNION {[K -> UNION {Vectors(n) : n \in 1..MaxVecLen}] :
           K \in {S \in SUBSET Ids : Cardinality(S) \in 1..MaxRemoteKeys}}

(***************************************************************************)
(* State.                                                                  *)
(*   probe       the Probe record behind the mutex (AppState)              *)
(*   lock        holder of the mutex                                       *)
(*   proc        "running", "panicked" once a task has panicked, or        *)
(*               "query_ended" once the query reader has returned          *)
(*   pc          the optimizer's position in its loop                      *)
(*   telemetry .. peers_to_notify   the optimizer's local variables        *)
(*   net         what the network did to the echo requests of the round:   *)
(*               for each probed peer, the outcome of the request to each  *)
(*               of its endpoints, in list order                           *)
(*   fetched     history of the aggregation, kept only where the maps are  *)
(*               recorded (AggregateSpec): the resolved map as the         *)
(*               embedding left it (line 249) and the maps that            *)
(*               peer.resolved() returned, in fetch order                  *)
(*   reply       the response sent by the current step, if any             *)
(*   last_toggle the last start_optimize / stop_optimize command applied   *)
(***************************************************************************)
VARIABLES probe, lock, proc, pc,
          telemetry, resolved, peers, status, pending_peer_ids,
          retained_peers, net, my_position, momentum, min_loss, current_lr,
          iteration, patience, agg_batch, aggregation_counter, fetched,
          admit_queue, peers_to_notify, reply, last_toggle

shared == <<probe, lock>>
snap == <<telemetry, resolved, peers, status, pending_peer_ids, retained_peers, net>>
embed == <<my_position, momentum, min_loss, current_lr, iteration, patience>>
agg == <<agg_batch, aggregation_counter, fetched>>
pub == <<admit_queue, peers_to_notify>>
vars == <<probe, lock, proc, pc, snap, embed, agg, pub, reply, last_toggle>>

NoReply == [kind |-> "none", ok |-> TRUE, err |-> "", num |-> 0, text |-> "",
            from |-> "", to |-> "", partial |-> FALSE]

DefaultStatus == [is_optimizing |-> FALSE, precision_ms |-> 0, epoch |-> 0]

\* no aggregation under way
NoFetch == [before |-> EmptyMap, maps |-> <<>>]

\* the declarations at the top of the optimizer's loop body
FreshLocals ==
  /\ telemetry' = EmptyMap
  /\ resolved' = EmptyMap
  /\ peers' = EmptyMap
  /\ status' = DefaultStatus
  /\ pending_peer_ids' = <<>>
  /\ retained_peers' = EmptyMap
  /\ net' = EmptyMap
  /\ my_position' = <<>>
  /\ momentum' = <<>>
  /\ min_loss' = 0
  /\ current_lr' = 0
  /\ iteration' = 0
  /\ patience' = 0
  /\ agg_batch' = {}
  /\ aggregation_counter' = EmptyMap
  /\ fetched' = NoFetch
  /\ admit_queue' = <<>>
  /\ peers_to_notify' = <<>>

Init ==
  /\ probe = Probe_new
  /\ lock = "free"
  /\ proc = "running"
  /\ pc = "snapshot"
  /\ telemetry = EmptyMap
  /\ resolved = EmptyMap
  /\ peers = EmptyMap
  /\ status = DefaultStatus
  /\ pending_peer_ids = <<>>
  /\ retained_peers = EmptyMap
  /\ net = EmptyMap
  /\ my_position = <<>>
  /\ momentum = <<>>
  /\ min_loss = 0
  /\ current_lr = 0
  /\ iteration = 0
  /\ patience = 0
  /\ agg_batch = {}
  /\ aggregation_counter = EmptyMap
  /\ fetched = NoFetch
  /\ admit_queue = <<>>
  /\ peers_to_notify = <<>>
  /\ reply = NoReply
  /\ last_toggle = "none"

\* a task can take the mutex
CanLock == proc = "running" /\ lock = "free"

\* tasks that go on after another task has ended
CanRun_AfterExit == lock # "handler"

\* a task other than a handler can run: no handler is inside its body,
\* which holds the mutex and has no suspension point
CanRun == proc = "running" /\ lock # "handler"

(***************************************************************************)
(* Command channel: start_optimize, stop_optimize, add_peer.               *)
(***************************************************************************)
CmdStartOptimize ==
  /\ CanLock
  /\ probe' = start_optimize(probe)
  /\ last_toggle' = "start"
  /\ UNCHANGED <<lock, proc, pc, snap, embed, agg, pub, reply>>

CmdStopOptimize ==
  /\ CanLock
  /\ probe' = stop_optimize(probe)
  /\ last_toggle' = "stop"
  /\ UNCHANGED <<lock, proc, pc, snap, embed, agg, pub, reply>>

CmdAddPeer(id) ==
  /\ CanLock
  /\ probe' = add_pending_peer(probe, id)
  /\ UNCHANGED <<lock, proc, pc, snap, embed, agg, pub, reply, last_toggle>>

(***************************************************************************)
(* router.rs and query.rs: handlers.  Each takes the mutex, reads or       *)
(* mutates and builds its response without suspending in between; Respond  *)
(* sends the response and drops the guard.                                 *)
(***************************************************************************)
\* the handler admitting the peer itself, in place of queueing its id
connected_handler_Admits(id) ==
  /\ CanLock
  /\ lock' = "handler"
  /\ probe' = IF DirectoryKnows(id)
              THEN add_peer(probe, Peer_new(id, get_address_by_id(id)))
              ELSE probe
  /\ reply' = [NoReply EXCEPT !.kind = "connected", !.from = id, !.text = id,
                              !.partial = (pc = "admit")]
  /\ UNCHANGED <<proc, pc, snap, embed, agg, pub, last_toggle>>

connected_handler(id) ==
  /\ CanLock
  /\ lock' = "handler"
  /\ probe' = add_pending_peer(probe, id)
  /\ reply' = [NoReply EXCEPT !.kind = "connected", !.from = id, !.text = id,
                              !.partial = (pc = "admit")]
  /\ UNCHANGED <<proc, pc, snap, embed, agg, pub, last_toggle>>

\* resolved_handler, status_handler, telemetry_handler, peers_handler
read_handler(kind) ==
  /\ CanLock
  /\ lock' = "handler"
  /\ reply' = [NoReply EXCEPT !.kind = kind, !.partial = (pc = "admit")]
  /\ UNCHANGED <<probe, proc, pc, snap, embed, agg, pub, last_toggle>>

\* unwrap_or_default() in place of unwrap_or(-1.0)
unwrap_or_sentinel_Default(r) == IF r.ok THEN r.num ELSE 0

\* router.rs line 35, query.rs line 33: unwrap_or(-1.0)
unwrap_or_sentinel(r) == IF r.ok THEN r.num ELSE -1

estimate_handler(from, to) ==
  /\ CanLock
  /\ lock' = "handler"
  /\ LET r == estimate(probe, from, to) IN
       reply' = [NoReply EXCEPT !.kind = "estimate", !.from = from, !.to = to,
                                !.ok = r.ok, !.err = r.err,
                                !.num = unwrap_or_sentinel(r),
                                !.partial = (pc = "admit")]
  /\ UNCHANGED <<probe, proc, pc, snap, embed, agg, pub, last_toggle>>

best_endpoint_handler(to) ==
  /\ CanLock
  /\ LET r == get_best_endpoint_to(probe, to) IN
       IF r.ok
       THEN /\ reply' = [NoReply EXCEPT !.kind = "best_endpoint", !.to = to,
                                        !.text = r.text,
                                        !.partial = (pc = "admit")]
            /\ lock' = "handler"
            /\ proc' = proc
       ELSE /\ reply' = [NoReply EXCEPT !.kind = "panic", !.to = to,
                                        !.ok = FALSE, !.err = r.err]
            /\ lock' = lock
            /\ proc' = "panicked"
  /\ UNCHANGED <<probe, pc, snap, embed, agg, pub, last_toggle>>

\* query.rs lines 12, 26, 38, 48: a payload or data that does not decode
\* leaves init_pink_query through `?`; nothing is sent on reply_tx
query_decode_failure ==
  /\ CanRun
  /\ proc' = "query_ended"
  /\ reply' = [NoReply EXCEPT !.kind = "query_error", !.ok = FALSE,
                              !.err = "Decode"]
  /\ UNCHANGED <<probe, lock, pc, snap, embed, agg, pub, last_toggle>>

\* the response sent with the guard kept alive
Respond_KeepsGuard ==
  /\ proc = "running"
  /\ lock = "handler"
  /\ lock' = lock
  /\ reply' = NoReply
  /\ UNCHANGED <<probe, proc, pc, snap, embed, agg, pub, last_toggle>>

Respond ==
  /\ proc = "running"
  /\ lock = "handler"
  /\ lock' = "free"
  /\ reply' = NoReply
  /\ UNCHANGED <<probe, proc, pc, snap, embed, agg, pub, last_toggle>>

(***************************************************************************)
(* optimize.rs: the optimizer task.                                        *)
(***************************************************************************)
\* The rounds explored: those that start with an epoch below MaxEpoch, and
\* the one that starts with the last value before the counter wraps.
RoundAllowed(e) == e < MaxEpoch \/ e >= U64Max - 1

\* lines 89-104: clone under the lock, then the gate on is_optimizing
Snapshot ==
  /\ pc = "snapshot"
  /\ CanLock
  /\ probe.status.is_optimizing => RoundAllowed(probe.status.epoch)
  /\ telemetry' = probe.telemetry
  /\ resolved' = probe.resolved
  /\ peers' = probe.peers
  /\ status' = probe.status
  /\ pc' = IF probe.status.is_optimizing THEN "collect" ELSE "gated"
  /\ UNCHANGED <<probe, lock, proc, pending_peer_ids, retained_peers, net, embed, agg,
                 pub, reply, last_toggle>>

\* line 102: sleep 10 s, continue
GatedSleep ==
  /\ pc = "gated"
  /\ CanRun
  /\ FreshLocals
  /\ pc' = "snapshot"
  /\ UNCHANGED <<probe, lock, proc, reply, last_toggle>>

\* lines 109-144: both batches are drawn, then probed; retained peers;
\* the start values of the embedding loop
CollectTelemetry ==
  /\ pc = "collect"
  /\ CanRun
  /\ LET online == {id \in DOMAIN peers : is_online(peers[id])}
         offline == DOMAIN peers \ online
     IN \E ob \in Batches(online, detection_size),
           fb \in Batches(offline, detection_size) :
        \E outs \in [ob \cup fb -> [1..1 -> EndpointOutcomes]] :
          IF \E id \in ob \cup fb : ~DirectoryKnows(id)
          THEN /\ proc' = "panicked"
               /\ UNCHANGED <<pc, snap, embed>>
          ELSE LET answers == [id \in ob \cup fb |-> get_address_by_id(id)]
                   ps == collect_peers(peers, ob \cup fb, answers, outs)
               IN
               \/ /\ offline_cnt_overflows(peers, ob \cup fb, answers, outs)
                  /\ proc' = "panicked"
                  /\ UNCHANGED <<pc, snap, embed>>
               \/ /\ proc' = proc
                  /\ telemetry' = collect_telemetry(telemetry, peers, ob \cup fb,
                                                    answers, outs)
                  /\ peers' = ps
                  /\ retained_peers' = Retain(ps, {id \in DOMAIN ps : is_online(ps[id])})
                  /\ net' = outs
                  /\ my_position' = resolved[SelfId]
                  /\ momentum' = ZeroVec(dim_size)
                  /\ min_loss' = F64Max
                  /\ current_lr' = lr_param
                  /\ iteration' = 0
                  /\ patience' = 0
                  /\ pc' = "embed"
                  /\ UNCHANGED <<resolved, status, pending_peer_ids>>
  /\ UNCHANGED <<probe, lock, agg, pub, reply, last_toggle>>

\* lines 249-261: leave the loop, store the position, draw the sample
\* it is the value of iteration at the break: the breaks of lines 148-154
\* come before the increment of line 155, the break of line 212 after it
EmbedExit(res, it) ==
  /\ resolved' = Put(res, SelfId, my_position)
  /\ \E b \in Batches(DOMAIN retained_peers, sample_size) : agg_batch' = b
  /\ aggregation_counter' = EmptyMap
  /\ fetched' = fetched
  /\ pc' = "aggregate"
  /\ proc' = proc
  /\ iteration' = it
  /\ UNCHANGED <<my_position, momentum, min_loss, current_lr, patience>>

\* lines 146-247: one iteration of the embedding loop
EmbedIter ==
  /\ pc = "embed"
  /\ CanRun
  /\ IF iteration >= max_iters \/ current_lr < min_lr
     THEN EmbedExit(resolved, iteration)
     ELSE \E batch \in Batches(DOMAIN retained_peers, batch_size) :
          LET K == {id \in batch : id \in DOMAIN telemetry}
              fresh == K \ DOMAIN resolved
          IN \E rnd \in [fresh -> Vectors(dim_size)] :
             LET res == [id \in DOMAIN resolved \cup fresh |->
                           IF id \in fresh THEN rnd[id] ELSE resolved[id]]
                 force == force_of(K, my_position, telemetry, res, ZeroVec(dim_size))
                 m2 == momentum_step(momentum, force, Cardinality(K))
                 x2 == position_step(my_position, m2, current_lr)
                 loss == compute_loss(retained_peers, telemetry, res)
                 better == loss < min_loss
                 pat == IF better THEN 0 ELSE patience + 1
             IN IF K = {}
                THEN /\ EmbedExit(res, iteration + 1)
                ELSE IF compute_loss_panics(retained_peers, telemetry, res)
                THEN /\ proc' = "panicked"
                     /\ UNCHANGED <<pc, resolved, embed, agg>>
                ELSE /\ resolved' = res
                     /\ momentum' = m2
                     /\ my_position' = x2
                     /\ min_loss' = IF better THEN loss ELSE min_loss
                     /\ patience' = IF pat > patience_param THEN 0 ELSE pat
                     /\ current_lr' = IF pat > patience_param
                                      THEN (current_lr * FactorNum) \div FactorDen
                                      ELSE current_lr
                     /\ iteration' = iteration + 1
                     /\ proc' = proc
                     /\ UNCHANGED <<pc, agg>>
  /\ UNCHANGED <<probe, lock, telemetry, peers, status, pending_peer_ids,
                 retained_peers, net, pub, reply, last_toggle>>

\* lines 263-294: fetch one sampled peer's map and merge it; Maps is what
\* the peers can answer, recorded says whether the history keeps the map
AggregateFetchFrom(Maps, recorded) ==
  /\ pc = "aggregate"
  /\ CanRun
  /\ \E id \in agg_batch :
       /\ agg_batch' = agg_batch \ {id}
       /\ \/ UNCHANGED <<resolved, pending_peer_ids, aggregation_counter, fetched>>
          \/ \E remote \in Maps : \E ord \in Perms(DOMAIN remote) :
               LET r == merge_remote(remote, ord, 1, pending_peer_ids, resolved,
                                     aggregation_counter)
               IN /\ resolved' = r.res
                  /\ pending_peer_ids' = r.pend
                  /\ aggregation_counter' = r.counter
                  /\ fetched' = IF recorded
                                THEN [fetched EXCEPT !.maps = Append(@, remote)]
                                ELSE fetched
  /\ UNCHANGED <<probe, lock, proc, pc, telemetry, peers, status, retained_peers,
                 net, embed, pub, reply, last_toggle>>

AggregateFetch == AggregateFetchFrom(RemoteMaps, FALSE)

\* the counter left as it is
next_epoch_Stuck(e) == e

\* line 331: (status.epoch + 1) % u64::MAX
next_epoch(e) == (e + 1) % U64Max

\* lines 295-331: divide, rebase, loss as precision_ms, epoch
AggregateFinish ==
  /\ pc = "aggregate"
  /\ CanRun
  /\ agg_batch = {}
  /\ LET res == rebase(divide_aggregated(resolved, aggregation_counter),
                       aggregation_counter)
     IN IF compute_loss_panics(retained_peers, telemetry, res)
        THEN /\ proc' = "panicked"
             /\ UNCHANGED <<pc, resolved, status, fetched>>
        ELSE /\ resolved' = res
             /\ status' = [status EXCEPT
                             !.precision_ms = compute_loss(retained_peers, telemetry, res),
                             !.epoch = next_epoch(status.epoch)]
             /\ fetched' = NoFetch
             /\ pc' = "publish"
             /\ proc' = proc
  /\ UNCHANGED <<probe, lock, telemetry, peers, pending_peer_ids, retained_peers,
                 net, embed, agg_batch, aggregation_counter, pub, reply, last_toggle>>

\* the guard dropped before the pending ids are admitted
PublishGuard_Dropped == "free"

\* line 338: the guard of the publish phase, held up to line 357
PublishGuard == "optimize"

\* lines 336-344: take the lock, replace the maps and the status, extend
\* the pending list; line 347 clones the list to iterate over
PublishBegin ==
  /\ pc = "publish"
  /\ CanLock
  /\ lock' = PublishGuard
  /\ probe' = [probe EXCEPT
                 !.telemetry = telemetry,
                 !.resolved = resolved,
                 !.peers = peers,
                 !.pending_peer_ids = probe.pending_peer_ids \o pending_peer_ids,
                 !.status = status]
  /\ admit_queue' = probe.pending_peer_ids \o pending_peer_ids
  /\ peers_to_notify' = <<>>
  /\ pc' = "admit"
  /\ UNCHANGED <<proc, snap, embed, agg, reply, last_toggle>>

\* lines 347-353: Peer::new and add_peer for the next pending id
PublishAdmit ==
  /\ pc = "admit"
  /\ CanRun
  /\ admit_queue # <<>>
  /\ LET id == Head(admit_queue) IN
       IF ~DirectoryKnows(id)
       THEN /\ proc' = "panicked"
            /\ UNCHANGED <<probe, admit_queue, peers_to_notify>>
       ELSE LET peer == Peer_new(id, get_address_by_id(id)) IN
            /\ probe' = add_peer(probe, peer)
            /\ peers_to_notify' = IF add_peer_ok(probe, peer)
                                  THEN Append(peers_to_notify, id)
                                  ELSE peers_to_notify
            /\ admit_queue' = Tail(admit_queue)
            /\ proc' = proc
  /\ UNCHANGED <<lock, pc, snap, embed, agg, reply, last_toggle>>

\* retain with <= in place of <
evict_OffByOne(ps, max) ==
  Retain(ps, {id \in DOMAIN ps : ps[id].offline_cnt <= max})

\* no retain at all
evict_Never(ps, max) == ps

\* line 356: peers.retain(|_, peer| peer.offline_cnt < max_offline_cnt)
evict(ps, max) ==
  Retain(ps, {id \in DOMAIN ps : ps[id].offline_cnt < max})

\* the guard kept after the block of the publish phase
PublishRelease_Kept == PublishGuard

\* line 357: the block ends and the guard is dropped
PublishRelease == "free"

\* lines 354-357: clear the pending list, evict, release the lock; the
\* parameters of line 93 are those of the probe, which nothing rewrites
PublishFinish ==
  /\ pc = "admit"
  /\ CanRun
  /\ admit_queue = <<>>
  /\ probe' = [probe EXCEPT
                 !.pending_peer_ids = <<>>,
                 !.peers = evict(probe.peers, probe.parameters.max_offline_cnt)]
  /\ lock' = PublishRelease
  /\ pc' = "notify"
  /\ UNCHANGED <<proc, snap, embed, agg, pub, reply, last_toggle>>

\* lines 359-364: notify_connected to the next newly added peer
Notify ==
  /\ pc = "notify"
  /\ CanRun
  /\ peers_to_notify # <<>>
  /\ peers_to_notify' = Tail(peers_to_notify)
  /\ UNCHANGED <<probe, lock, proc, pc, snap, embed, agg, admit_queue, reply, last_toggle>>

\* line 366: sleep 5 s, next round
RoundSleep ==
  /\ pc = "notify"
  /\ CanRun
  /\ peers_to_notify = <<>>
  /\ FreshLocals
  /\ pc' = "snapshot"
  /\ UNCHANGED <<probe, lock, proc, reply, last_toggle>>

Optimize ==
  \/ Snapshot
  \/ GatedSleep
  \/ CollectTelemetry
  \/ EmbedIter
  \/ AggregateFetch
  \/ AggregateFinish
  \/ PublishBegin
  \/ PublishAdmit
  \/ PublishFinish
  \/ Notify
  \/ RoundSleep

Commands ==
  \/ CmdStartOptimize
  \/ CmdStopOptimize
  \/ \E id \in Ids : CmdAddPeer(id)

Handlers ==
  \/ \E id \in Ids : connected_handler(id)
  \/ \E kind \in {"resolved", "status", "telemetry", "peers"} : read_handler(kind)
  \/ \E from \in Ids, to \in Ids : estimate_handler(from, to)
  \/ \E to \in Ids : best_endpoint_handler(to)
  \/ query_decode_failure
  \/ Respond

Next == Optimize \/ Commands \/ Handlers

Spec == Init /\ [][Next]_vars

(***************************************************************************)
(* The peer client against a directory whose answer may change between     *)
(* lookups: one peer record, refreshed and probed as collect_telemetry     *)
(* does, with every answer and every outcome of the requests.  The         *)
(* directory of utils.rs is a placeholder that answers one fixed list per  *)
(* id; update_endpoints and echo take whatever list get_address_by_id      *)
(* returns, so here the answer ranges over DirectoryAnswers.               *)
(***************************************************************************)
Endpoints == {"127.0.0.1:2001", "127.0.0.1:3001", "127.0.0.1:4001"}

\* non-empty endpoint lists without repetition
DirectoryAnswers ==
  UNION {{a \in [1..n -> Endpoints] : \A i, j \in 1..n : a[i] = a[j] => i = j} :
           n \in 1..MaxEndpoints}

\* one endpoint's request with a duration of up to MaxPeerLatency
PeerEndpointOutcomes == [ok : BOOLEAN, dur : 0..MaxPeerLatency]

PeerInit ==
  /\ probe = Probe_new
  /\ lock = "free"
  /\ proc = "running"
  /\ pc = "peer_update"
  /\ telemetry = Probe_new.telemetry
  /\ resolved = EmptyMap
  /\ \E a \in DirectoryAnswers : peers = Put(EmptyMap, PeerB, Peer_new(PeerB, a))
  /\ status = DefaultStatus
  /\ pending_peer_ids = <<>>
  /\ retained_peers = EmptyMap
  /\ net = EmptyMap
  /\ my_position = <<>>
  /\ momentum = <<>>
  /\ min_loss = 0
  /\ current_lr = 0
  /\ iteration = 0
  /\ patience = 0
  /\ agg_batch = {}
  /\ aggregation_counter = EmptyMap
  /\ fetched = NoFetch
  /\ admit_queue = <<>>
  /\ peers_to_notify = <<>>
  /\ reply = NoReply
  /\ last_toggle = "none"

\* optimize.rs line 57
PeerUpdateEndpoints ==
  /\ pc = "peer_update"
  /\ peers[PeerB].offline_cnt < max_offline_cnt
  /\ \E a \in DirectoryAnswers :
       peers' = Put(peers, PeerB, update_endpoints(peers[PeerB], a))
  /\ net' = EmptyMap
  /\ pc' = "peer_echo"
  /\ UNCHANGED <<probe, lock, proc, telemetry, resolved, status, pending_peer_ids,
                 retained_peers, embed, agg, pub, reply, last_toggle>>

\* optimize.rs lines 59-71
PeerEcho ==
  /\ pc = "peer_echo"
  /\ \E outs \in [1..Len(peers[PeerB].endpoints) -> PeerEndpointOutcomes] :
       LET answers == Put(EmptyMap, PeerB, peers[PeerB].endpoints)
           o == Put(EmptyMap, PeerB, outs)
       IN /\ peers' = collect_peers(peers, {PeerB}, answers, o)
          /\ telemetry' = collect_telemetry(telemetry, peers, {PeerB}, answers, o)
          /\ net' = o
  /\ pc' = "peer_update"
  /\ UNCHANGED <<probe, lock, proc, resolved, status, pending_peer_ids,
                 retained_peers, embed, agg, pub, reply, last_toggle>>

PeerNext == PeerUpdateEndpoints \/ PeerEcho

PeerSpec == PeerInit /\ [][PeerNext]_vars

(***************************************************************************)
(* The optimizer on its own, started with peers already in the table:      *)
(* PeerB, and possibly PeerC, admitted by earlier rounds, each with the    *)
(* failures it has had so far and, when it has been probed with success    *)
(* before, its telemetry and coordinate; precision_ms is the loss of that  *)
(* table, as the round that published it computed it (line 330).  The      *)
(* epoch counts the rounds completed so far: none, or as many as bring the *)
(* counter to its last value before the wrap of line 331.                  *)
(***************************************************************************)
EvictEpochs == {0, U64Max - 1}

\* what the earlier echoes of PeerC took beyond the fixed 100 ms
EvictExtraLatency == 20

EvictPeerTables ==
  UNION {[K -> {[Peer_new(id, get_address_by_id(id)) EXCEPT !.offline_cnt = c] :
                  id \in K, c \in 0..(max_offline_cnt - 1)}] :
           K \in {{PeerB}, {PeerB, PeerC}}}

EvictInit ==
  /\ \E ps \in EvictPeerTables :
     \E T \in SUBSET DOMAIN ps :
     \E e \in EvictEpochs :
       LET tel == [id \in T \cup {SelfId} |->
                     CASE id = SelfId -> 0
                       [] id = PeerB -> EchoDelay
                       [] OTHER -> EchoDelay + EvictExtraLatency]
           res == [id \in T \cup {SelfId} |->
                     IF id = SelfId THEN Probe_new.resolved[SelfId]
                     ELSE ZeroVec(dim_size)]
       IN
       /\ \A id \in DOMAIN ps : ps[id].encoded_public_key = id
       /\ probe = [Probe_new EXCEPT
                     !.peers = ps,
                     !.telemetry = tel,
                     !.resolved = res,
                     !.status = [is_optimizing |-> TRUE,
                                 precision_ms |-> compute_loss(EmptyMap, tel, res),
                                 epoch |-> e]]
  /\ lock = "free"
  /\ proc = "running"
  /\ pc = "snapshot"
  /\ telemetry = EmptyMap
  /\ resolved = EmptyMap
  /\ peers = EmptyMap
  /\ status = DefaultStatus
  /\ pending_peer_ids = <<>>
  /\ retained_peers = EmptyMap
  /\ net = EmptyMap
  /\ my_position = <<>>
  /\ momentum = <<>>
  /\ min_loss = 0
  /\ current_lr = 0
  /\ iteration = 0
  /\ patience = 0
  /\ agg_batch = {}
  /\ aggregation_counter = EmptyMap
  /\ fetched = NoFetch
  /\ admit_queue = <<>>
  /\ peers_to_notify = <<>>
  /\ reply = NoReply
  /\ last_toggle = "start"

EvictNext ==
  \/ Snapshot
  \/ CollectTelemetry
  \/ EmbedIter
  \/ AggregateFetch
  \/ AggregateFinish
  \/ PublishBegin
  \/ PublishAdmit
  \/ PublishFinish
  \/ Notify
  \/ RoundSleep

EvictSpec == EvictInit /\ [][EvictNext]_vars

(***************************************************************************)
(* The end of a round on its own, from the point where the map of the one  *)
(* sampled peer has been fetched and merged: PeerB is the online peer that *)
(* was probed and sampled, v0 and vB are the coordinates the embedding     *)
(* left for the probe and for PeerB, remote is what PeerB's /resolved      *)
(* returned (no entry at all when the fetch failed).  Coordinates are      *)
(* multiples of 12, so that the divisions by the aggregation count (1 or   *)
(* 2) and by the number of entries (1 to 3) are exact on the integer grid, *)
(* as they are in f64 up to rounding.                                      *)
(***************************************************************************)
RebaseCoords == {0, 12}

RebaseVectors == UNION {[1..n -> RebaseCoords] : n \in 1..dim_size}

RebaseRemoteMaps ==
  UNION {[K -> RebaseVectors] : K \in SUBSET {SelfId, PeerB, PeerC}}

RebaseInit ==
  /\ \E v0, vB \in [1..dim_size -> RebaseCoords] :
     \E remote \in RebaseRemoteMaps : \E ord \in Perms(DOMAIN remote) :
       LET before == [id \in {SelfId, PeerB} |-> IF id = SelfId THEN v0 ELSE vB]
           r == merge_remote(remote, ord, 1, <<>>, before, EmptyMap)
       IN /\ resolved = r.res
          /\ pending_peer_ids = r.pend
          /\ aggregation_counter = r.counter
          /\ fetched = NoFetch
          /\ my_position = v0
  /\ probe = [Probe_new EXCEPT
                !.peers = Put(EmptyMap, PeerB, Peer_new(PeerB, get_address_by_id(PeerB))),
                !.status.is_optimizing = TRUE]
  /\ lock = "free"
  /\ proc = "running"
  /\ pc = "aggregate"
  /\ telemetry = Put(Probe_new.telemetry, PeerB, EchoDelay)
  /\ peers = probe.peers
  /\ status = probe.status
  /\ retained_peers = probe.peers
  /\ net = Put(EmptyMap, PeerB, <<[ok |-> TRUE, dur |-> 0]>>)
  /\ momentum = ZeroVec(dim_size)
  /\ min_loss = F64Max
  /\ current_lr = lr_param
  /\ iteration = max_iters
  /\ patience = 0
  /\ agg_batch = {}
  /\ admit_queue = <<>>
  /\ peers_to_notify = <<>>
  /\ reply = NoReply
  /\ last_toggle = "start"

RebaseNext ==
  \/ AggregateFinish
  \/ PublishBegin
  \/ PublishAdmit
  \/ PublishFinish
  \/ Notify
  \/ RoundSleep

RebaseSpec == RebaseInit /\ [][RebaseNext]_vars

(***************************************************************************)
(* The optimizer on its own, for a probe whose max_offline_cnt is read     *)
(* from the cache as 0, 1, 2 or u8::MAX.  The peers in the table have had  *)
(* no failure or one less than the limit; with the limit 0 no peer can be  *)
(* in the table, and PeerB waits in the pending list.                      *)
(***************************************************************************)
OfflineLimits == {0, 1, 2, U8Max}

OfflineInit ==
  /\ \E max \in OfflineLimits :
     \E K \in (IF max = 0 THEN {{}} ELSE {{PeerB}, {PeerB, PeerC}}) :
     \E cnt \in [K -> {0, max - 1}] :
     \E pend \in (IF max = 0 THEN {<<PeerB>>} ELSE {<<>>, <<PeerC>>}) :
       LET ps == [id \in K |-> [Peer_new(id, get_address_by_id(id))
                                  EXCEPT !.offline_cnt = cnt[id]]]
           tel == [id \in K \cup {SelfId} |-> IF id = SelfId THEN 0 ELSE EchoDelay]
           res == [id \in K \cup {SelfId} |->
                     IF id = SelfId THEN Probe_new.resolved[SelfId]
                     ELSE ZeroVec(dim_size)]
       IN probe = [Probe_new EXCEPT
                     !.parameters.max_offline_cnt = max,
                     !.peers = ps,
                     !.telemetry = tel,
                     !.resolved = res,
                     !.pending_peer_ids = pend,
                     !.status = [is_optimizing |-> TRUE,
                                 precision_ms |-> compute_loss(EmptyMap, tel, res),
                                 epoch |-> 0]]
  /\ lock = "free"
  /\ proc = "running"
  /\ pc = "snapshot"
  /\ telemetry = EmptyMap
  /\ resolved = EmptyMap
  /\ peers = EmptyMap
  /\ status = DefaultStatus
  /\ pending_peer_ids = <<>>
  /\ retained_peers = EmptyMap
  /\ net = EmptyMap
  /\ my_position = <<>>
  /\ momentum = <<>>
  /\ min_loss = 0
  /\ current_lr = 0
  /\ iteration = 0
  /\ patience = 0
  /\ agg_batch = {}
  /\ aggregation_counter = EmptyMap
  /\ fetched = NoFetch
  /\ admit_queue = <<>>
  /\ peers_to_notify = <<>>
  /\ reply = NoReply
  /\ last_toggle = "start"

OfflineSpec == OfflineInit /\ [][EvictNext]_vars

(***************************************************************************)
(* The optimizer, started, together with the request handlers that take    *)
(* the mutex: a writer (connected, from PeerB or PeerC) and a reader        *)
(* (resolved).  The fairness  *)
(* is that of the steps that take or hold the mutex: a task that holds it  *)
(* has no suspension point that waits for another task (Respond,           *)
(* PublishAdmit, PublishFinish), so its next step is taken; a task waiting *)
(* in lock().await is served in the order of arrival by tokio's Mutex, so  *)
(* it acquires the mutex if it is released again and again (Snapshot,      *)
(* PublishBegin).                                                          *)
(***************************************************************************)
LockInit ==
  /\ probe = [Probe_new EXCEPT !.status.is_optimizing = TRUE]
  /\ lock = "free"
  /\ proc = "running"
  /\ pc = "snapshot"
  /\ telemetry = EmptyMap
  /\ resolved = EmptyMap
  /\ peers = EmptyMap
  /\ status = DefaultStatus
  /\ pending_peer_ids = <<>>
  /\ retained_peers = EmptyMap
  /\ net = EmptyMap
  /\ my_position = <<>>
  /\ momentum = <<>>
  /\ min_loss = 0
  /\ current_lr = 0
  /\ iteration = 0
  /\ patience = 0
  /\ agg_batch = {}
  /\ aggregation_counter = EmptyMap
  /\ fetched = NoFetch
  /\ admit_queue = <<>>
  /\ peers_to_notify = <<>>
  /\ reply = NoReply
  /\ last_toggle = "start"

LockNext ==
  \/ EvictNext
  \/ \E id \in {PeerB, PeerC} : connected_handler(id)
  \/ read_handler("resolved")
  \/ Respond

LockSpec ==
  /\ LockInit
  /\ [][LockNext]_vars
  /\ WF_vars(Respond)
  /\ WF_vars(PublishAdmit)
  /\ WF_vars(PublishFinish)
  /\ SF_vars(PublishBegin)
  /\ SF_vars(Snapshot)

(***************************************************************************)
(* The aggregation of a round on its own, for a probe whose sample_size    *)
(* lets it fetch from two peers: PeerB and PeerC are online, were probed   *)
(* and are both sampled; the probe holds coordinates for itself and for    *)
(* both of them.  Each fetch fails or returns a map over the probe's own   *)
(* id and PeerD, of which the probe has no coordinate.  Coordinates are    *)
(* multiples of 36, so that the divisions by the aggregation count (1 to   *)
(* 3) and then by the number of entries (3 or 4) are exact on the integer  *)
(* grid.                                                                   *)
(***************************************************************************)
AggregateSampleSize == 2

AggregateCoords == {0, 36}

AggregateVectors == [1..dim_size -> AggregateCoords] \cup {<<36>>}

AggregateRemoteMaps ==
  UNION {[K -> AggregateVectors] : K \in (SUBSET {SelfId, PeerD}) \ {{}}}

AggregateInit ==
  /\ \E v0 \in [1..dim_size -> AggregateCoords] :
       /\ resolved = [id \in {SelfId, PeerB, PeerC} |->
                        IF id = SelfId THEN v0 ELSE ZeroVec(dim_size)]
       /\ my_position = v0
  /\ fetched = [before |-> resolved, maps |-> <<>>]
  /\ probe = [Probe_new EXCEPT
                !.peers = [id \in {PeerB, PeerC} |->
                             Peer_new(id, get_address_by_id(id))],
                !.telemetry = [id \in {SelfId, PeerB, PeerC} |->
                                 IF id = SelfId THEN 0 ELSE EchoDelay],
                !.resolved = [id \in {SelfId, PeerB, PeerC} |-> ZeroVec(dim_size)],
                !.status.is_optimizing = TRUE]
  /\ lock = "free"
  /\ proc = "running"
  /\ pc = "aggregate"
  /\ telemetry = probe.telemetry
  /\ peers = probe.peers
  /\ status = probe.status
  /\ pending_peer_ids = <<>>
  /\ retained_peers = probe.peers
  /\ net = [id \in {PeerB, PeerC} |-> <<[ok |-> TRUE, dur |-> 0]>>]
  /\ momentum = ZeroVec(dim_size)
  /\ min_loss = F64Max
  /\ current_lr = lr_param
  /\ iteration = max_iters
  /\ patience = 0
  /\ agg_batch \in Batches(DOMAIN retained_peers, AggregateSampleSize)
  /\ aggregation_counter = EmptyMap
  /\ admit_queue = <<>>
  /\ peers_to_notify = <<>>
  /\ reply = NoReply
  /\ last_toggle = "start"

AggregateFetchWide == AggregateFetchFrom(AggregateRemoteMaps, TRUE)

AggregateNext ==
  \/ AggregateFetchWide
  \/ AggregateFinish
  \/ PublishBegin
  \/ PublishAdmit
  \/ PublishFinish
  \/ Notify
  \/ RoundSleep

AggregateSpec == AggregateInit /\ [][AggregateNext]_vars

(***************************************************************************)
(* The estimate request on its own: the probe holds any table of peers     *)
(* (online or offline) and any coordinates, of any length, for them, as    *)
(* rounds of aggregation leave them; every pair of ids is asked for.       *)
(***************************************************************************)
EstimateCoords == {0, 3, 4}

EstimateVectors ==
  UNION {[1..n -> EstimateCoords] : n \in 1..dim_size}

EstimatePeerTables ==
  UNION {[K -> {[Peer_new(id, get_address_by_id(id)) EXCEPT !.offline_cnt = c] :
                  id \in K, c \in 0..(max_offline_cnt - 1)}] :
           K \in SUBSET {PeerB, PeerC}}

EstimateInit ==
  /\ \E ps \in EstimatePeerTables :
     \E K \in SUBSET {PeerB, PeerC} :
     \E res \in [K -> EstimateVectors] :
       /\ \A id \in DOMAIN ps : ps[id].encoded_public_key = id
       /\ probe = [Probe_new EXCEPT
                     !.peers = ps,
                     !.resolved = [id \in K \cup {SelfId} |->
                                     IF id \in K THEN res[id]
                                     ELSE Probe_new.resolved[SelfId]]]
  /\ lock = "free"
  /\ proc = "running"
  /\ pc = "snapshot"
  /\ telemetry = EmptyMap
  /\ resolved = EmptyMap
  /\ peers = EmptyMap
  /\ status = DefaultStatus
  /\ pending_peer_ids = <<>>
  /\ retained_peers = EmptyMap
  /\ net = EmptyMap
  /\ my_position = <<>>
  /\ momentum = <<>>
  /\ min_loss = 0
  /\ current_lr = 0
  /\ iteration = 0
  /\ patience = 0
  /\ agg_batch = {}
  /\ aggregation_counter = EmptyMap
  /\ fetched = NoFetch
  /\ admit_queue = <<>>
  /\ peers_to_notify = <<>>
  /\ reply = NoReply
  /\ last_toggle = "none"

EstimateNext ==
  \/ \E from \in Ids, to \in Ids : estimate_handler(from, to)
  \/ Respond

EstimateSpec == EstimateInit /\ [][EstimateNext]_vars

(***************************************************************************)
(* Properties.                                                             *)
(***************************************************************************)
\* the shared state can be seen by a task other than the optimizer
Observable == lock # "optimize"

NoDuplicates(s) == \A i, j \in 1..Len(s) : s[i] = s[j] => i = j

\* C1: status.is_optimizing changes only when a start_optimize or
\* stop_optimize command is applied: it is true exactly when the last such
\* command was start_optimize (false before any command), so once
\* stop_optimize has set it to false it stays false until the next
\* start_optimize.
C1_FlagFollowsCommands ==
  probe.status.is_optimizing <=> (last_toggle = "start")

\* C2: after stop_optimize has been applied (and no start_optimize since),
\* every round attempt of the optimizer is a gated sleep and leaves the
\* shared resolved map, telemetry map and epoch unchanged.
C2_GatedAfterStop ==
  [][(last_toggle = "stop" /\ last_toggle' = "stop" /\ pc = "snapshot")
       => /\ pc' \in {"snapshot", "gated"}
          /\ probe'.resolved = probe.resolved
          /\ probe'.telemetry = probe.telemetry
          /\ probe'.status.epoch = probe.status.epoch]_vars

\* C3: a round's publish is atomic for readers: no handler ever reads the
\* shared state between the replacement of the maps and the end of the
\* publish phase (admission, clearing of the pending list, eviction), and
\* no handler holds the lock then.
C3_PublishAtomicForReaders ==
  /\ ~reply.partial
  /\ lock = "handler" => pc # "admit"

\* a handler read the state right after a publish that admitted a peer
C3_Witness ==
  /\ reply.kind = "resolved"
  /\ pc = "notify"
  /\ probe.status.epoch >= 1
  /\ DOMAIN probe.peers # {}

\* C4: the probe's own id is a key of the shared resolved map in every
\* reachable state.
C4_SelfResolved == SelfId \in DOMAIN probe.resolved

\* a round has been published whose map holds coordinates of other ids
\* beside the probe's own
C4_Witness ==
  /\ probe.status.epoch >= 1
  /\ SelfId \in DOMAIN probe.resolved
  /\ Cardinality(DOMAIN probe.resolved) > 1

\* C5: in every state another task can observe, the probe's own id is
\* neither a key of peers nor an element of pending_peer_ids.
C5_SelfNeitherPeerNorPending ==
  Observable =>
    /\ SelfId \notin DOMAIN probe.peers
    /\ SelfId \notin Range(probe.pending_peer_ids)

\* a publish phase has run over a pending list that held the probe's own
\* id, taken from a remote map
C5_Witness ==
  /\ pc = "notify"
  /\ SelfId \in Range(pending_peer_ids)
  /\ lock = "free"

\* C6: every coordinate vector in the shared resolved map has length
\* exactly dim_size.
C6_VectorsHaveDimSize ==
  \A k \in DOMAIN probe.resolved : Len(probe.resolved[k]) = dim_size

C8_AddPeer ==
  [][(pc = "admit" /\ admit_queue # <<>> /\ admit_queue' = Tail(admit_queue))
       => LET id == Head(admit_queue)
              fresh == id # SelfId /\ id \notin DOMAIN probe.peers
          IN /\ \A k \in DOMAIN probe.peers :
                  k \in DOMAIN probe'.peers /\ probe'.peers[k] = probe.peers[k]
             /\ fresh => /\ DOMAIN probe'.peers = DOMAIN probe.peers \cup {id}
                         /\ peers_to_notify' = Append(peers_to_notify, id)
             /\ ~fresh => /\ probe'.peers = probe.peers
                          /\ peers_to_notify' = peers_to_notify]_vars

\* add_peer has inserted PeerB and is about to be called for PeerB again
C8_Witness ==
  /\ pc = "admit"
  /\ admit_queue # <<>>
  /\ Head(admit_queue) = PeerB
  /\ PeerB \in Range(peers_to_notify)
  /\ PeerB \in DOMAIN probe.peers

\* C9: add_pending_peer(id) appends id iff id is not the probe's own id,
\* not a key of peers and not in pending_peer_ids, and changes nothing
\* otherwise; in every state another task can observe pending_peer_ids
\* holds no duplicate, not the probe's own id and no key of peers.
C9_AddPendingPeer ==
  /\ [](Observable =>
          /\ NoDuplicates(probe.pending_peer_ids)
          /\ SelfId \notin Range(probe.pending_peer_ids)
          /\ Range(probe.pending_peer_ids) \cap DOMAIN probe.peers = {})
  /\ [][(reply.kind = "none" /\ reply'.kind = "connected")
          => LET id == reply'.from
                 fresh == /\ id # SelfId
                          /\ id \notin DOMAIN probe.peers
                          /\ id \notin Range(probe.pending_peer_ids)
             IN /\ fresh => probe' = [probe EXCEPT !.pending_peer_ids =
                                                     Append(probe.pending_peer_ids, id)]
                /\ ~fresh => probe' = probe
                /\ UNCHANGED <<proc, pc, snap, embed, agg, pub, last_toggle>>]_vars

\* /connected was called with the probe's own id while ids were pending
C9_Witness ==
  /\ reply.kind = "connected"
  /\ reply.from = SelfId
  /\ Len(probe.pending_peer_ids) >= 2

\* C10: estimate(from, to) succeeds iff both ids are keys of peers, both
\* peers are online and both ids have a coordinate in resolved; a failure
\* is NotAPeer only when an id is absent from peers, Offline only when a
\* present peer is offline, NotResolved only when a coordinate is missing;
\* it never modifies the state.
C10_Estimate ==
  /\ [](reply.kind = "estimate" =>
          LET from == reply.from
              to == reply.to
              known == {from, to} \subseteq DOMAIN probe.peers
              online == \A id \in {from, to} \cap DOMAIN probe.peers :
                          probe.peers[id].offline_cnt = 0
              coords == {from, to} \subseteq DOMAIN probe.resolved
          IN /\ reply.ok <=> (known /\ online /\ coords)
             /\ reply.ok => reply.num = euclidean_distance(probe.resolved[from],
                                                          probe.resolved[to])
             /\ ~reply.ok => reply.err \in {"NotAPeer", "Offline", "NotResolved"}
             /\ reply.err = "NotAPeer" => ~known
             /\ reply.err = "Offline" => ~online
             /\ reply.err = "NotResolved" => (known /\ online /\ ~coords))
  /\ [][(reply.kind = "none" /\ reply'.kind = "estimate")
          => UNCHANGED <<probe, proc, pc, snap, embed, agg, pub, last_toggle>>]_vars

\* estimate has returned a distance for two different peers
C10_Witness ==
  /\ reply.kind = "estimate"
  /\ reply.ok
  /\ reply.from # reply.to

\* C11: estimate accepts the probe's own id as one of its two endpoints:
\* for an online peer b with a coordinate, estimate(self, b) and
\* estimate(b, self) return the distance between resolved[self] and
\* resolved[b].
C11_SelfAsEndpoint ==
  reply.kind = "estimate" =>
    \A b \in DOMAIN probe.peers :
      (/\ {reply.from, reply.to} = {SelfId, b}
       /\ probe.peers[b].offline_cnt = 0
       /\ b \in DOMAIN probe.resolved)
      => /\ reply.ok
         /\ reply.num = euclidean_distance(probe.resolved[SelfId],
                                           probe.resolved[b])

\* C12: estimate(a, b) and estimate(b, a) succeed or fail together; when
\* they succeed they return the same distance, and estimate(a, a) is 0.
C12_EstimateSymmetric ==
  reply.kind = "estimate" =>
    LET back == estimate(probe, reply.to, reply.from) IN
    /\ back.ok = reply.ok
    /\ reply.ok => back.num = reply.num
    /\ (reply.ok /\ reply.from = reply.to) => reply.num = 0

\* estimate has returned a non-zero distance between two peers whose
\* vectors differ in length
C12_Witness ==
  /\ reply.kind = "estimate"
  /\ reply.ok
  /\ reply.num > 0
  /\ Len(probe.resolved[reply.from]) # Len(probe.resolved[reply.to])

\* C13: the estimate handler answers -1 for every failure of estimate
\* (unknown id, offline peer, unresolved id) and the distance otherwise;
\* the request leaves the serving task running and the state unchanged.
C13_EstimateSentinel ==
  /\ [](reply.kind = "estimate" =>
          LET ends == {reply.from, reply.to}
              good == /\ ends \subseteq DOMAIN probe.peers
                      /\ \A id \in ends : probe.peers[id].offline_cnt = 0
                      /\ ends \subseteq DOMAIN probe.resolved
          IN /\ proc = "running"
             /\ good => /\ reply.num >= 0
                         /\ reply.num = euclidean_distance(probe.resolved[reply.from],
                                                           probe.resolved[reply.to])
             /\ ~good => reply.num = -1)
  /\ [][(reply.kind = "estimate") =>
          /\ reply'.kind = "none"
          /\ proc' = "running"
          /\ probe' = probe]_vars

\* a request for an offline peer has been answered with the sentinel
C13_Witness ==
  /\ reply.kind = "estimate"
  /\ reply.err = "Offline"
  /\ reply.num = -1

\* C14: get_best_endpoint_to(id) fails with NotAPeer when id is not a key
\* of peers, with Offline when the peer's offline_cnt is not zero, and
\* returns the peer's best_endpoint otherwise; it does not modify the
\* probe.
C14_BestEndpoint ==
  /\ [](reply.kind \in {"best_endpoint", "panic"} =>
          LET to == reply.to IN
          /\ to \notin DOMAIN probe.peers =>
                ~reply.ok /\ reply.err = "NotAPeer"
          /\ (to \in DOMAIN probe.peers /\ probe.peers[to].offline_cnt # 0) =>
                ~reply.ok /\ reply.err = "Offline"
          /\ (to \in DOMAIN probe.peers /\ probe.peers[to].offline_cnt = 0) =>
                /\ reply.kind = "best_endpoint"
                /\ reply.text = probe.peers[to].best_endpoint)
  /\ [][(reply.kind = "none" /\ reply'.kind \in {"best_endpoint", "panic"})
          => probe' = probe]_vars

\* the best endpoint of an online peer has been returned
C14_Witness ==
  /\ reply.kind = "best_endpoint"
  /\ reply.to \in DOMAIN probe.peers
  /\ reply.text = probe.peers[reply.to].best_endpoint

\* C15: an error raised while serving a request (a best_endpoint request
\* for an id that is unknown or offline, a query that does not decode)
\* leaves the serving task and the process running.
C15_RequestErrorsReported ==
  reply.kind # "none" => proc = "running"

\* C16: after every publish phase peers holds exactly the peers of the
\* round (those of the optimizer's table and those newly admitted) whose
\* offline_cnt is below max_offline_cnt, with their records unchanged; a
\* peer whose failures have reached max_offline_cnt is removed by the
\* publish phase of that round, so no observable state holds one.
C16_Eviction ==
  /\ [](Observable =>
          \A id \in DOMAIN probe.peers :
            probe.peers[id].offline_cnt < max_offline_cnt)
  /\ [][(pc = "admit" /\ pc' = "notify") =>
          LET rec == [id \in DOMAIN peers \cup Range(peers_to_notify) |->
                        IF id \in DOMAIN peers THEN peers[id]
                        ELSE Peer_new(id, get_address_by_id(id))]
          IN /\ DOMAIN probe'.peers =
                  {id \in DOMAIN rec : rec[id].offline_cnt < max_offline_cnt}
             /\ \A id \in DOMAIN probe'.peers : probe'.peers[id] = rec[id]]_vars

\* a publish phase has removed a peer at its last failure and kept another
C16_Witness ==
  /\ pc = "notify"
  /\ lock = "free"
  /\ \E id \in DOMAIN peers :
       /\ peers[id].offline_cnt = max_offline_cnt
       /\ id \notin DOMAIN probe.peers
  /\ DOMAIN probe.peers # {}

\* C17: a peer that has been evicted because its echo kept failing stays
\* absent from peers from then on, also when a sampled peer's resolved map
\* still lists its id.
C17_EvictedStaysAbsent ==
  [][(PeerB \notin DOMAIN probe.peers) => (PeerB \notin DOMAIN probe'.peers)]_vars

\* C18: when a publish phase completes, every key D of a map fetched in
\* that round that is not the probe's own id, was not a peer and has an
\* endpoint in the directory is a member of peers and stands exactly once
\* in the list of peers to notify; that list never holds the probe itself
\* or a peer known before, and each notify_connected call is made for the
\* head of the list while the optimizer does not hold the lock.
C18_DiscoveredPeerAdmitted ==
  /\ [][(pc = "admit" /\ pc' = "notify") =>
          \A D \in DOMAIN aggregation_counter :
            (D # SelfId /\ D \notin DOMAIN peers /\ DirectoryKnows(D)) =>
              /\ D \in DOMAIN probe'.peers
              /\ Cardinality({i \in 1..Len(peers_to_notify) :
                                peers_to_notify[i] = D}) = 1]_vars
  /\ [](pc = "notify" =>
          /\ lock # "optimize"
          /\ NoDuplicates(peers_to_notify)
          /\ \A i \in 1..Len(peers_to_notify) :
               /\ peers_to_notify[i] # SelfId
               /\ peers_to_notify[i] \notin DOMAIN peers)
  /\ [][(peers_to_notify' # peers_to_notify /\ pc = "notify" /\ pc' = "notify") =>
          /\ lock # "optimize"
          /\ peers_to_notify' = Tail(peers_to_notify)]_vars

\* an id discovered in a fetched map has been admitted by the publish phase
\* and awaits its one notification
C18_Witness ==
  /\ pc = "notify"
  /\ \E D \in DOMAIN aggregation_counter :
       /\ D \notin DOMAIN peers
       /\ D \in DOMAIN probe.peers
       /\ D \in Range(peers_to_notify)

\* C19: an id enqueued in pending_peer_ids stays there until a publish
\* phase completes; the publish phase processes every id of the list it
\* iterates over, one after the other; pending_peer_ids is empty when the
\* publish phase releases the lock.
C19_PendingNeverLost ==
  /\ [][(\E id \in Range(probe.pending_peer_ids) :
            id \notin Range(probe'.pending_peer_ids))
          => (pc = "admit" /\ pc' = "notify")]_vars
  /\ [][(lock = "optimize" /\ lock' # "optimize")
          => probe'.pending_peer_ids = <<>>]_vars
  /\ [][(pc = "admit" /\ admit_queue # <<>> /\ reply' = reply)
          => admit_queue' = Tail(admit_queue)]_vars

\* C20: a failed directory lookup inside a round does not end the
\* optimizer task: a publish phase that has taken the lock is never cut
\* short.
C20_RoundErrorsSwallowed ==
  lock = "optimize" => proc # "panicked"

C23_RoundWithoutPeers ==
  /\ [][(pc = "publish" /\ pc' = "admit" /\ DOMAIN peers = {}
          /\ probe.status.epoch = 0)
          => /\ DOMAIN net = {}
             /\ DOMAIN retained_peers = {}
             /\ DOMAIN aggregation_counter = {}
             /\ telemetry = Probe_new.telemetry
             /\ probe'.resolved = Probe_new.resolved
             /\ probe'.resolved = probe.resolved
             /\ probe'.status.epoch = 1]_vars
  /\ [](pc = "notify" /\ DOMAIN peers = {} /\ DOMAIN probe.peers = {}
         => peers_to_notify = <<>>)

\* the first round of a probe without peers has been published and nobody
\* is to be notified
C23_Witness ==
  /\ pc = "notify"
  /\ lock = "free"
  /\ DOMAIN peers = {}
  /\ DOMAIN probe.peers = {}
  /\ probe.status.epoch = 1
  /\ probe.resolved = Probe_new.resolved
  /\ peers_to_notify = <<>>

\* C24: in a round whose retained peer set is empty the embedding loop is
\* left in its first iteration with the position and the coordinates
\* untouched, and the publish phase writes a precision_ms equal to the one
\* before the round and an epoch greater by one (the wrap of the counter
\* is the subject of C30).
C24_EmptyRetained ==
  /\ [][(pc = "embed" /\ DOMAIN retained_peers = {})
          => /\ pc' = "aggregate"
             /\ iteration = 0
             /\ iteration' = 1
             /\ my_position' = my_position
             /\ resolved' = resolved
             /\ agg_batch' = {}]_vars
  /\ [][(pc = "publish" /\ pc' = "admit" /\ DOMAIN retained_peers = {})
          => /\ probe'.status.precision_ms = probe.status.precision_ms
             /\ (probe.status.epoch < U64Max - 1
                   => probe'.status.epoch = probe.status.epoch + 1)]_vars

\* a round without retained peers has published a precision_ms other than 0
C24_Witness ==
  /\ pc = "admit"
  /\ DOMAIN retained_peers = {}
  /\ DOMAIN peers # {}
  /\ probe.status.precision_ms > 0
  /\ probe.status.epoch = 1

\* C25: when the round has aggregated at least one coordinate, the vectors
\* of the resolved map it publishes have one length and sum to zero in
\* every component, so that their mean is the origin; when nothing was
\* aggregated the coordinates are left where they were.
C25_CentroidAtOrigin ==
  /\ [][(pc = "aggregate" /\ pc' = "publish") =>
          IF DOMAIN aggregation_counter = {}
          THEN resolved' = resolved
          ELSE \E L \in 0..dim_size :
                 /\ \A k \in DOMAIN resolved' : Len(resolved'[k]) = L
                 /\ \A i \in 1..L :
                      SumOver(DOMAIN resolved',
                              [k \in DOMAIN resolved' |-> resolved'[k][i]]) = 0]_vars
  /\ [][(pc = "publish" /\ pc' = "admit") => probe'.resolved = resolved]_vars

\* a published map of three entries, some of them off the origin, after an
\* aggregation that changed the probe's own coordinate
C25_Witness ==
  /\ pc = "admit"
  /\ Cardinality(DOMAIN aggregation_counter) = 3
  /\ Cardinality(DOMAIN probe.resolved) = 3
  /\ \E k \in DOMAIN probe.resolved : \E i \in 1..Len(probe.resolved[k]) :
       probe.resolved[k][i] # 0
  /\ probe.resolved[SelfId] # my_position

\* C26: the echo of a probed peer fails exactly when the request to every
\* endpoint of its list failed; then offline_cnt goes up by exactly one and
\* telemetry is left alone; with one endpoint answering, wherever it
\* stands in the list, the echo succeeds: offline_cnt is 0 and the peer
\* has a telemetry entry.
C26_AllEndpointsDown ==
  [][(pc = "peer_echo" /\ pc' = "peer_update") =>
      LET outs == net'[PeerB]
          all_down == \A i \in DOMAIN outs : ~outs[i].ok
      IN /\ DOMAIN outs = 1..Len(peers[PeerB].endpoints)
         /\ all_down <=> peers'[PeerB].offline_cnt = peers[PeerB].offline_cnt + 1
         /\ all_down => telemetry' = telemetry
         /\ ~all_down => /\ peers'[PeerB].offline_cnt = 0
                         /\ PeerB \in DOMAIN telemetry']_vars

\* an echo has succeeded through the second endpoint after the first failed
C26_Witness ==
  /\ pc = "peer_update"
  /\ PeerB \in DOMAIN net
  /\ Len(net[PeerB]) = 2
  /\ ~net[PeerB][1].ok
  /\ net[PeerB][2].ok
  /\ peers[PeerB].offline_cnt = 0
  /\ PeerB \in DOMAIN telemetry

C28_TelemetryPhase ==
  [][(pc = "collect" /\ pc' = "embed") =>
      /\ DOMAIN net' \subseteq DOMAIN peers
      /\ DOMAIN peers' = DOMAIN peers
      /\ DOMAIN telemetry' \subseteq DOMAIN telemetry \cup DOMAIN net'
      /\ telemetry'[SelfId] = telemetry[SelfId]
      /\ \A id \in DOMAIN peers :
           LET had == id \in DOMAIN telemetry IN
           IF id \notin DOMAIN net'
           THEN /\ peers'[id] = peers[id]
                /\ (id \in DOMAIN telemetry') = had
                /\ had => telemetry'[id] = telemetry[id]
           ELSE LET r == echo(peers[id], net'[id]) IN
                IF \E i \in DOMAIN net'[id] : net'[id][i].ok
                THEN /\ peers'[id].offline_cnt = 0
                     /\ id \in DOMAIN telemetry'
                     /\ telemetry'[id] =
                          IF had
                          THEN (telemetry[id] * BetaNum + r.ttl * (BetaDen - BetaNum))
                                 \div BetaDen
                          ELSE r.ttl
                ELSE /\ peers'[id].offline_cnt = peers[id].offline_cnt + 1
                     /\ (id \in DOMAIN telemetry') = had
                     /\ had => telemetry'[id] = telemetry[id]]_vars

\* one peer with a prior measurement was probed with success and its entry
\* moved to the average, while the other peer's echo failed and its entry
\* stayed
C28_Witness ==
  /\ pc = "embed"
  /\ DOMAIN net = {PeerB, PeerC}
  /\ {PeerB, PeerC} \subseteq DOMAIN probe.telemetry
  /\ net[PeerC][1].ok
  /\ ~net[PeerB][1].ok
  /\ telemetry[PeerC] = (probe.telemetry[PeerC] + EchoDelay) \div 2
  /\ telemetry[PeerC] # probe.telemetry[PeerC]
  /\ telemetry[PeerB] = probe.telemetry[PeerB]
  /\ peers[PeerB].offline_cnt = probe.peers[PeerB].offline_cnt + 1

\* C29: the peers probed in a round are peers of the snapshot; of those
\* online in the snapshot detection_size are probed, or all when fewer, and
\* likewise of those offline in the snapshot; a probed peer is probed once:
\* its offline_cnt is 0 or one more than in the snapshot, so a peer that was
\* online and failed ends the phase with offline_cnt 1.
C29_Batches ==
  [][(pc = "collect" /\ pc' = "embed") =>
      LET online == {id \in DOMAIN peers : is_online(peers[id])}
          offline == DOMAIN peers \ online
          probed == DOMAIN net'
      IN /\ probed \subseteq DOMAIN peers
         /\ Cardinality(probed \cap online)
              = Min(detection_size, Cardinality(online))
         /\ Cardinality(probed \cap offline)
              = Min(detection_size, Cardinality(offline))
         /\ \A id \in probed :
              /\ Len(net'[id]) = Len(peers'[id].endpoints)
              /\ peers'[id].offline_cnt \in {0, peers[id].offline_cnt + 1}
         /\ \A id \in online \cap probed :
              peers'[id].offline_cnt \in {0, 1}]_vars

\* of two online peers one was probed and turned offline in this round;
\* it was not probed a second time
C29_Witness ==
  /\ pc = "embed"
  /\ DOMAIN probe.peers = {PeerB, PeerC}
  /\ \A id \in DOMAIN probe.peers : is_online(probe.peers[id])
  /\ Cardinality(DOMAIN net) = detection_size
  /\ \E id \in DOMAIN net : peers[id].offline_cnt = 1

\* C30: epoch changes only by a completed round, which publishes the
\* previous value plus one modulo 2^64 (U64Max + 1, U64Max being the
\* largest value of the counter).
C30_EpochModulo ==
  [][probe'.status.epoch # probe.status.epoch
      => probe'.status.epoch = (probe.status.epoch + 1) % (U64Max + 1)]_vars

\* the mean the aggregation is to leave for a key k that the fetched maps
\* returned: the local vector, if there is one, and the vectors returned
\* for k, summed over their common components and divided by their number
C31_Mean(k) ==
  LET J == {j \in 1..Len(fetched.maps) : k \in DOMAIN fetched.maps[j]}
      n == Cardinality(J)
      local == k \in DOMAIN fetched.before
      lens == {Len(fetched.maps[j][k]) : j \in J}
                \cup (IF local THEN {Len(fetched.before[k])} ELSE {})
      L == CHOOSE l \in lens : \A m \in lens : l <= m
  IN [i \in 1..L |->
        ((IF local THEN fetched.before[k][i] ELSE 0)
           + SumOver(J, [j \in J |-> fetched.maps[j][k][i]]))
          \div (IF local THEN n + 1 ELSE n)]

\* C31: at the end of the aggregation step, a key returned by n >= 1 of the
\* fetched maps holds (local + sum of the n remote vectors) / (n + 1) when
\* the probe had a coordinate for it and (sum of the n remote vectors) / n
\* when it had none, counted so in aggregation_counter; every other key
\* keeps its local vector; the recentering is applied to that map.
C31_AggregatedMean ==
  [][(pc = "aggregate" /\ pc' = "publish") =>
       LET keys == UNION {DOMAIN fetched.maps[j] : j \in 1..Len(fetched.maps)}
           expected == [k \in DOMAIN fetched.before \cup keys |->
                          IF k \in keys THEN C31_Mean(k) ELSE fetched.before[k]]
       IN /\ DOMAIN aggregation_counter = keys
          /\ \A k \in keys :
               aggregation_counter[k] =
                 Cardinality({j \in 1..Len(fetched.maps) : k \in DOMAIN fetched.maps[j]})
                   + (IF k \in DOMAIN fetched.before THEN 1 ELSE 0)
          /\ resolved' = rebase(expected, aggregation_counter)]_vars

\* a round that fetched two maps, both with the probe's own id and with
\* PeerD, has divided by three and by two; PeerB was in neither map
C31_Witness ==
  /\ pc = "publish"
  /\ DOMAIN aggregation_counter = {SelfId, PeerD}
  /\ aggregation_counter[SelfId] = 3
  /\ aggregation_counter[PeerD] = 2
  /\ \E i \in 1..Len(resolved[PeerD]) : resolved[PeerD][i] # resolved[PeerB][i]

\* C32: no task does network I/O or sleeps while it holds the lock.  The
\* optimizer holds it only inside its publish phase (the snapshot takes and
\* drops it within one step); the steps that probe the peers, fetch a
\* remote map, notify a new peer or sleep start and end with the lock not
\* held by the optimizer; a handler that holds the lock, its response
\* built, does nothing but drop it, and no other task runs until it has.
C32_NoIoUnderLock ==
  /\ [](lock = PublishGuard => pc = "admit")
  /\ [][(\/ pc = "collect" /\ pc' # pc
         \/ pc = "aggregate" /\ agg_batch' # agg_batch
         \/ pc = "notify" /\ peers_to_notify' # peers_to_notify
         \/ pc \in {"gated", "notify"} /\ pc' = "snapshot")
        => lock = "free" /\ lock' = "free"]_vars
  /\ [][lock = "handler"
        => /\ lock' = "free"
           /\ UNCHANGED <<probe, proc, pc, snap, embed, agg, pub>>]_vars

\* a request is served while the optimizer, its publish phase over, has
\* yet to notify a peer it admitted
C32_Witness ==
  /\ pc = "notify"
  /\ peers_to_notify # <<>>
  /\ lock = "handler"
  /\ reply.kind = "resolved"
  /\ probe.status.epoch = 1

\* C33: the loss computation never fails: no step of the embedding loop
\* (loss of line 230) and no step that ends the aggregation (loss of line
\* 330, published as precision_ms) leaves the optimizer panicked, whatever
\* telemetry, peers and resolved the round has arrived at.
C33_LossNeverFails ==
  [][(pc \in {"embed", "aggregate"}) => proc' # "panicked"]_vars

\* C34: the embedding loop ends after at most max_iters iterations; an
\* iteration multiplies lr by factor exactly when the patience it has
\* counted exceeds parameters.patience, and then resets patience to 0; the
\* loop is left as soon as lr is below min_lr or no sampled peer has
\* telemetry; hence every round that passed the gate reaches its publish
\* phase: none comes to a halt between its telemetry phase and its publish.
C34_EmbeddingTerminates ==
  /\ [](iteration <= max_iters)
  /\ [][(pc = "embed" /\ pc' = "embed" /\ iteration' # iteration) =>
          LET pat == IF min_loss' < min_loss THEN 0 ELSE patience + 1
          IN /\ iteration' = iteration + 1
             /\ current_lr >= min_lr
             /\ IF pat > patience_param
                THEN /\ current_lr' = (current_lr * FactorNum) \div FactorDen
                     /\ patience' = 0
                ELSE /\ current_lr' = current_lr
                     /\ patience' = pat]_vars
  /\ [][(pc = "embed" /\ pc' = "aggregate") =>
          \/ iteration' = max_iters
          \/ current_lr < min_lr
          \/ iteration' = iteration + 1]_vars
  /\ [](pc \in {"collect", "embed", "aggregate"} => proc = "running")

\* C35: offline_cnt stays inside its 8 bits.  Outside the publish block
\* every peer of the shared state has offline_cnt < max_offline_cnt, for a
\* limit of 0 and of 255 too; the telemetry phase leaves a counter at 0,
\* where it was, or one higher, and a failed echo finds it below 255 and
\* raises it by exactly one.
C35_OfflineCntInRange ==
  /\ [](probe.parameters.max_offline_cnt <= U8Max)
  /\ [](pc # "admit" =>
          \A id \in DOMAIN probe.peers :
            probe.peers[id].offline_cnt < probe.parameters.max_offline_cnt)
  /\ [][(pc = "collect" /\ pc' = "embed") =>
          \A id \in DOMAIN peers :
            /\ peers'[id].offline_cnt
                 \in {0, peers[id].offline_cnt, peers[id].offline_cnt + 1}
            /\ (id \in DOMAIN net' /\ \A i \in DOMAIN net'[id] : ~net'[id][i].ok)
                 => /\ peers[id].offline_cnt < U8Max
                    /\ peers'[id].offline_cnt = peers[id].offline_cnt + 1]_vars
  /\ [][(pc = "collect") => proc' = "running"]_vars

\* with the limit at 255 a peer has failed for the 255th time and the
\* publish phase has evicted it
C35_Witness ==
  /\ pc = "notify"
  /\ probe.parameters.max_offline_cnt = U8Max
  /\ PeerB \in DOMAIN peers
  /\ peers[PeerB].offline_cnt = U8Max
  /\ PeerB \notin DOMAIN probe.peers

\* C36: the publish phase loses no update to the maps it replaces.  A
\* handler step leaves peers, telemetry, resolved, parameters, status.epoch
\* and status.precision_ms of the shared state alone and at most appends
\* one id to pending_peer_ids; from the snapshot to the publish no step of
\* any task changes these fields; the publish stores the round's peers,
\* telemetry, resolved, epoch and precision_ms and keeps every pending id.
C36_PublishLosesNothing ==
  /\ [][(reply' # reply \/ lock' = "handler" \/ lock = "handler") =>
          /\ probe'.peers = probe.peers
          /\ probe'.telemetry = probe.telemetry
          /\ probe'.resolved = probe.resolved
          /\ probe'.parameters = probe.parameters
          /\ probe'.status.epoch = probe.status.epoch
          /\ probe'.status.precision_ms = probe.status.precision_ms
          /\ \/ probe'.pending_peer_ids = probe.pending_peer_ids
             \/ \E id \in Ids :
                  probe'.pending_peer_ids = Append(probe.pending_peer_ids, id)]_vars
  /\ [][(pc \in {"collect", "embed", "aggregate", "publish"} /\ pc' # "admit") =>
          /\ probe'.peers = probe.peers
          /\ probe'.telemetry = probe.telemetry
          /\ probe'.resolved = probe.resolved
          /\ probe'.parameters = probe.parameters
          /\ probe'.status.epoch = probe.status.epoch
          /\ probe'.status.precision_ms = probe.status.precision_ms]_vars
  /\ [][(pc = "publish" /\ pc' = "admit") =>
          /\ probe'.peers = peers
          /\ probe'.telemetry = telemetry
          /\ probe'.resolved = resolved
          /\ probe'.parameters = probe.parameters
          /\ probe'.status.epoch = status.epoch
          /\ probe'.status.precision_ms = status.precision_ms
          /\ probe'.pending_peer_ids = probe.pending_peer_ids \o pending_peer_ids]_vars

\* a publish has stored a table with a peer in it while ids queued by
\* requests and an id found by the round wait together in the pending list
C36_Witness ==
  /\ pc = "admit"
  /\ admit_queue = probe.pending_peer_ids
  /\ pending_peer_ids # <<>>
  /\ Len(probe.pending_peer_ids) > Len(pending_peer_ids)
  /\ probe.peers = peers
  /\ DOMAIN probe.peers # {}
  /\ probe.status.epoch = 2

\* C37: the key sets of telemetry and resolved only grow.  No step removes
\* a key from the shared maps; inside a round the local maps only gain
\* keys; the step that evicts a peer from peers leaves its telemetry value
\* and its coordinate where they are.
C37_KeysOnlyGrow ==
  /\ [][/\ DOMAIN probe.telemetry \subseteq DOMAIN probe'.telemetry
        /\ DOMAIN probe.resolved \subseteq DOMAIN probe'.resolved]_vars
  /\ [][(pc # "snapshot" /\ pc' # "snapshot") =>
          /\ DOMAIN telemetry \subseteq DOMAIN telemetry'
          /\ DOMAIN resolved \subseteq DOMAIN resolved']_vars
  /\ [][(pc = "snapshot" /\ pc' = "collect") =>
          /\ telemetry' = probe.telemetry
          /\ resolved' = probe.resolved]_vars
  /\ [][(pc = "admit" /\ pc' = "notify") =>
          /\ probe'.telemetry = probe.telemetry
          /\ probe'.resolved = probe.resolved
          /\ \A id \in DOMAIN probe.peers \ DOMAIN probe'.peers :
               /\ id \in DOMAIN telemetry => id \in DOMAIN probe'.telemetry
               /\ id \in DOMAIN resolved => id \in DOMAIN probe'.resolved]_vars

\* PeerB has been evicted from peers; its telemetry value and its
\* coordinate are still in the shared maps
C37_Witness ==
  /\ pc = "notify"
  /\ PeerB \in DOMAIN peers
  /\ PeerB \notin DOMAIN probe.peers
  /\ PeerB \in DOMAIN probe.telemetry
  /\ PeerB \in DOMAIN probe.resolved
  /\ probe.telemetry[PeerB] = EchoDelay

\* C38: the lock is never held forever and no task waits for it forever,
\* as long as the program runs.  A handler that holds it drops it; the
\* optimizer, once in its publish block, leaves it; the optimizer waiting
\* for its publish or for its snapshot gets the lock although requests
\* keep taking it (a snapshot is waited for only while a further round is
\* explored).
C38_LockLiveness ==
  /\ (lock = "handler") ~> (lock = "free" \/ proc # "running")
  /\ (lock = PublishGuard) ~> (lock = "free" \/ proc # "running")
  /\ (pc = "publish") ~> (pc = "admit" \/ proc # "running")
  /\ (pc = "snapshot" /\ RoundAllowed(probe.status.epoch))
       ~> (pc = "collect" \/ proc # "running")

\* a request holds the lock while the optimizer waits for it with a round
\* to publish, after an earlier publish
C38_Witness ==
  /\ pc = "publish"
  /\ lock = "handler"
  /\ reply.kind = "connected"
  /\ probe.status.epoch = 1
  /\ proc = "running"

====
